---- MODULE Spec2Model ----
(***************************************************************************)
(* Model of app/main.py: the FastAPI service that brokers the Kite Connect *)
(* login, manual order placement and the "AI" penny-stock buying run.      *)
(*                                                                         *)
(* Money is kept in whole currency units.  The only non-integral factor of *)
(* the code, available_funds * 0.8, is kept exact by carrying the capped   *)
(* investment as five times its value (max_investment5).  growth_percent   *)
(* and avg_volume are exact fractions [num, den] with den > 0.             *)
(***************************************************************************)
EXTENDS Integers, Sequences, FiniteSets, TLC

VARIABLES
    session_storage,    \* main.py:31  dict: account id -> access token
    kite_access_token,  \* the shared KiteConnect client's token (set_access_token)
    nse_instruments,    \* what kite.instruments(exchange="NSE") returns
    nse_historical,     \* instrument_token -> what kite.historical_data returns
    request,            \* the request being answered ([endpoint |-> "idle"] if none)
    response,           \* its HTTP response
    gateway_calls,      \* the gateway calls the handler made, in order
    locals              \* the locals of ai_place_orders when it ended

vars == <<session_storage, kite_access_token, nse_instruments, nse_historical,
          request, response, gateway_calls, locals>>

-----------------------------------------------------------------------------
(* Bounds of the model *)

MaxInstruments == 2

-----------------------------------------------------------------------------
(* Constants of the program *)

KITE_ID == "KITE_ID"
None == "<None>"
ScanLimit == 100
MinDataPoints == 5
MinAvgVolume == 10000
MinFunds == 1000

Min(a, b) == IF a <= b THEN a ELSE b
Max(a, b) == IF a >= b THEN a ELSE b
Abs(a) == IF a >= 0 THEN a ELSE -a

\* Python's s[:m]: the first m elements, or all but the last -m when m < 0.
SliceTo(s, m) ==
    IF m >= 0 THEN SubSeq(s, 1, Min(m, Len(s)))
    ELSE SubSeq(s, 1, Max(0, Len(s) + m))

\* Python's int(a / b) for b # 0: the quotient truncated toward zero.
TruncDiv(a, b) ==
    IF (a >= 0) = (b > 0) THEN Abs(a) \div Abs(b) ELSE -(Abs(a) \div Abs(b))

\* Comparison of exact fractions with positive denominators.
FracGE(x, y) == x.num * y.den >= y.num * x.den
FracGT(x, y) == x.num * y.den > y.num * x.den
Whole(n) == [num |-> n, den |-> 1]

-----------------------------------------------------------------------------
(* The data the gateway can hold *)

Candles(closes, volume) ==
    [i \in 1..Len(closes) |-> [close |-> closes[i], volume |-> volume]]

Fetched(candles) == [ok |-> TRUE, candles |-> candles]
FetchError == [ok |-> FALSE, candles |-> <<>>]

\* An instrument of the NSE dump together with the outcome of its
\* historical-data fetch.
InstrumentKinds ==
    { [segment |-> "NSE-EQ", last_price |-> 10,
       historical |-> Fetched(Candles(<<10, 9, 8, 9, 12>>, 20000))],
      [segment |-> "NSE-EQ", last_price |-> 30,
       historical |-> Fetched(Candles(<<10, 9, 8, 9, 11>>, 20000))],
      [segment |-> "NSE-EQ", last_price |-> 0,
       historical |-> Fetched(Candles(<<10, 9, 8, 9, 11>>, 20000))],
      [segment |-> "NSE-EQ", last_price |-> 10,
       historical |-> FetchError],
      [segment |-> "INDICES", last_price |-> 10,
       historical |-> Fetched(Candles(<<10, 9, 8, 9, 12>>, 20000))],
      [segment |-> "NSE-EQ", last_price |-> 60,
       historical |-> Fetched(Candles(<<10, 9, 8, 9, 12>>, 20000))],
      [segment |-> "NSE-EQ", last_price |-> 10,
       historical |-> Fetched(Candles(<<10, 12, 12, 12>>, 20000))],
      [segment |-> "NSE-EQ", last_price |-> 10,
       historical |-> Fetched(Candles(<<0, 1, 1, 1, 1>>, 20000))],
      [segment |-> "NSE-EQ", last_price |-> 10,
       historical |-> Fetched(Candles(<<10, 9, 8, 9, 12>>, 10000))] }

Instrument(i, kind) ==
    [instrument_token |-> i, tradingsymbol |-> i,
     segment |-> kind.segment, last_price |-> kind.last_price]

\* AIOrderConfig: any value of the right type is accepted (no range check).
Configs ==
    [max_investment : {-10000, 40, 10000},
     max_stocks : {-1, 0, 1, 2},
     penny_stock_threshold : {50},
     min_growth_percent : {0, 5}]

DefaultConfig ==
    [max_investment |-> 10000, max_stocks |-> 5,
     penny_stock_threshold |-> 50, min_growth_percent |-> 5]

\* kite.margins(segment="equity"): raises, or returns a dict with or without "net".
MarginsOutcomes ==
    { [ok |-> FALSE, has_net |-> FALSE, net |-> 0],
      [ok |-> TRUE, has_net |-> FALSE, net |-> 0],
      [ok |-> TRUE, has_net |-> TRUE, net |-> 500],
      [ok |-> TRUE, has_net |-> TRUE, net |-> 1000],
      [ok |-> TRUE, has_net |-> TRUE, net |-> 5000] }

RequestTokens == {None, "", "rt1"}
AccessTokens == {"at1", "at2"}

\* kite.generate_session: raises, or returns a dict with or without "access_token".
SessionOutcomes ==
    { [ok |-> FALSE, has_token |-> FALSE, access_token |-> None],
      [ok |-> TRUE, has_token |-> FALSE, access_token |-> None] }
    \cup { [ok |-> TRUE, has_token |-> TRUE, access_token |-> t] : t \in AccessTokens }

-----------------------------------------------------------------------------
(* Records of what a handler did *)

Call(op, arg, ok, quantity) ==
    [op |-> op, arg |-> arg, ok |-> ok, quantity |-> quantity]

\* The generate_session call with what it returned.
SessionCall(data) ==
    [op |-> "generate_session", arg |-> 0, ok |-> data.ok, quantity |-> 0,
     has_token |-> data.has_token, access_token |-> data.access_token]

NoLocals ==
    [available_funds |-> 0, max_investment5 |-> 0, passed |-> <<>>,
     penny_stocks |-> <<>>]

Idle == [endpoint |-> "idle", request_token |-> None, config |-> DefaultConfig]

\* status_code is what the client receives; raised is the status of the
\* HTTPException raised inside the handler's try block (0 when none was).
Response(status_code, raised, orders, access_token) ==
    [status_code |-> status_code, raised |-> raised, orders |-> orders,
     access_token |-> access_token]

NoResponse == Response(0, 0, <<>>, None)

EmptyStore == [k \in {} |-> None]

-----------------------------------------------------------------------------
(* find_penny_stocks *)

\* growth_percent of a price list, 0 when the first close is 0.
GrowthPercent(prices) ==
    IF prices[1] # 0
    THEN [num |-> (prices[Len(prices)] - prices[1]) * 100, den |-> prices[1]]
    ELSE Whole(0)

RECURSIVE SumSeq(_)
SumSeq(s) == IF s = <<>> THEN 0 ELSE s[1] + SumSeq(Tail(s))

\* np.mean(volumes)
Mean(volumes) == [num |-> SumSeq(volumes), den |-> Len(volumes)]

\* The filter applied before any fetch: true when the instrument is skipped.
SkippedBeforeFetch(instrument, config) ==
    \/ instrument.segment # "NSE-EQ"
    \/ instrument.last_price > config.penny_stock_threshold

EnoughData(historical) == ~(Len(historical) < MinDataPoints)

BasicFilter(growth_percent, avg_volume, config) ==
    /\ FracGE(growth_percent, Whole(config.min_growth_percent))
    /\ FracGT(avg_volume, Whole(MinAvgVolume))

PennyStock(instrument, growth_percent, avg_volume) ==
    [tradingsymbol |-> instrument.tradingsymbol,
     last_price |-> instrument.last_price,
     growth_percent |-> growth_percent,
     avg_volume |-> avg_volume]

\* What one fetched series adds to penny_stocks.
Screened(instrument, historical, config) ==
    IF ~EnoughData(historical) THEN <<>>
    ELSE LET prices == [i \in 1..Len(historical) |-> historical[i].close]
             volumes == [i \in 1..Len(historical) |-> historical[i].volume]
             growth_percent == GrowthPercent(prices)
             avg_volume == Mean(volumes)
         IN  IF BasicFilter(growth_percent, avg_volume, config)
             THEN <<PennyStock(instrument, growth_percent, avg_volume)>>
             ELSE <<>>

\* Variant of AfterFetchError: a failed fetch ends the scan.
AbortScan(rest) == [penny_stocks |-> <<>>, calls |-> <<>>]

\* What a failed fetch does to the scan: the instrument alone is skipped.
AfterFetchError(rest) == rest

\* The loop over instruments[:100], from position i on.
RECURSIVE ScanLoop(_, _, _, _)
ScanLoop(instruments, historical_of, config, i) ==
    IF i > Len(instruments) THEN [penny_stocks |-> <<>>, calls |-> <<>>]
    ELSE LET instrument == instruments[i]
             rest == ScanLoop(instruments, historical_of, config, i + 1)
         IN  IF SkippedBeforeFetch(instrument, config) THEN rest
             ELSE LET fetch == historical_of[instrument.instrument_token]
                      call == Call("historical_data", instrument.instrument_token,
                                   fetch.ok, 0)
                  IN  IF ~fetch.ok
                      THEN LET after == AfterFetchError(rest)
                           IN  [penny_stocks |-> after.penny_stocks,
                                calls |-> <<call>> \o after.calls]
                      ELSE [penny_stocks |->
                                Screened(instrument, fetch.candles, config)
                                    \o rest.penny_stocks,
                            calls |-> <<call>> \o rest.calls]

\* sorted(..., key=growth_percent, reverse=True): stable, descending.
RECURSIVE InsertByGrowth(_, _)
InsertByGrowth(stock, sorted) ==
    IF sorted = <<>> THEN <<stock>>
    ELSE IF FracGE(stock.growth_percent, sorted[1].growth_percent)
         THEN <<stock>> \o sorted
         ELSE <<sorted[1]>> \o InsertByGrowth(stock, Tail(sorted))

RECURSIVE SortByGrowth(_)
SortByGrowth(stocks) ==
    IF stocks = <<>> THEN <<>>
    ELSE InsertByGrowth(stocks[1], SortByGrowth(Tail(stocks)))

Ranked(penny_stocks, config) ==
    SliceTo(SortByGrowth(penny_stocks), config.max_stocks)

\* find_penny_stocks: [status_code, penny_stocks, calls].
FindPennyStocks(config, instruments_ok) ==
    IF ~instruments_ok
    THEN [status_code |-> 500, penny_stocks |-> <<>>, passed |-> <<>>,
          calls |-> <<Call("instruments", 0, FALSE, 0)>>]
    ELSE LET scan == ScanLoop(SliceTo(nse_instruments, ScanLimit),
                              nse_historical, config, 1)
         IN  [status_code |-> 200,
              penny_stocks |-> Ranked(scan.penny_stocks, config),
              passed |-> scan.penny_stocks,
              calls |-> <<Call("instruments", 0, TRUE, 0)>> \o scan.calls]

-----------------------------------------------------------------------------
(* check_available_funds and ai_place_orders *)

\* margins.get("net", 0)
AvailableFunds(margins) == IF margins.has_net THEN margins.net ELSE 0

\* Variant of InsufficientFunds: only a negative balance is refused.
NoFundsGate(available_funds) == available_funds < 0

InsufficientFunds(available_funds) == available_funds < MinFunds

\* Five times min(config.max_investment, available_funds * 0.8).
MaxInvestment5(config, available_funds) ==
    Min(5 * config.max_investment, 4 * available_funds)

\* The divisor of investment_per_stock.
Shares(config, penny_stocks) == Min(config.max_stocks, Len(penny_stocks))

\* int(investment_per_stock / last_price), for last_price # 0.
Quantity(max_investment5, shares, last_price) ==
    TruncDiv(max_investment5, 5 * shares * last_price)

\* Variant of TooFew: a quantity of 0 is let through.
TooFewOffByOne(quantity) == quantity < 0

TooFew(quantity) == quantity < 1

\* Variant of AfterOrderError: a rejected order ends the loop.
AbortOrders(rest) == [orders |-> <<>>, calls |-> <<>>]

\* What a failed place_order call does to the loop: the next stock is tried.
AfterOrderError(rest) == rest

Order(stock, quantity) ==
    [tradingsymbol |-> stock.tradingsymbol, quantity |-> quantity]

\* The loop over penny_stocks, from position i on.  place_fails is the set of
\* trading symbols for which the gateway rejects the order.
RECURSIVE PlaceLoop(_, _, _, _, _)
PlaceLoop(penny_stocks, max_investment5, shares, place_fails, i) ==
    IF i > Len(penny_stocks) THEN [orders |-> <<>>, calls |-> <<>>]
    ELSE LET stock == penny_stocks[i]
             rest == PlaceLoop(penny_stocks, max_investment5, shares,
                               place_fails, i + 1)
         IN  IF stock.last_price = 0
             THEN rest      \* ZeroDivisionError, caught by the loop's except
             ELSE LET quantity == Quantity(max_investment5, shares,
                                           stock.last_price)
                      ok == stock.tradingsymbol \notin place_fails
                      call == Call("place_order", stock.tradingsymbol, ok,
                                   quantity)
                  IN  IF TooFew(quantity) THEN rest
                      ELSE IF ~ok
                           THEN LET after == AfterOrderError(rest)
                                IN  [orders |-> after.orders,
                                     calls |-> <<call>> \o after.calls]
                           ELSE [orders |-> <<Order(stock, quantity)>>
                                                \o rest.orders,
                                 calls |-> <<call>> \o rest.calls]

\* The handler's outer "except Exception": what the client receives when
\* an exception carrying status `raised` leaves the try block.
OuterExcept(raised) == 500

Failure(raised) == Response(OuterExcept(raised), raised, <<>>, None)

\* The body of ai_place_orders after the credential check.
AiRun(config, margins, instruments_ok, place_fails) ==
    LET margins_call == Call("margins", 0, margins.ok, 0)
        available_funds == AvailableFunds(margins)
        max_investment5 == MaxInvestment5(config, available_funds)
        found == FindPennyStocks(config, instruments_ok)
        penny_stocks == found.penny_stocks
        placed == PlaceLoop(penny_stocks, max_investment5,
                            Shares(config, penny_stocks), place_fails, 1)
        funds_locals == [NoLocals EXCEPT !.available_funds = available_funds]
        run_locals == [available_funds |-> available_funds,
                       max_investment5 |-> max_investment5,
                       passed |-> found.passed,
                       penny_stocks |-> penny_stocks]
    IN  IF ~margins.ok
        THEN [response |-> Failure(500), calls |-> <<margins_call>>,
              locals |-> NoLocals]
        ELSE IF InsufficientFunds(available_funds)
        THEN [response |-> Failure(400), calls |-> <<margins_call>>,
              locals |-> funds_locals]
        ELSE IF found.status_code # 200
        THEN [response |-> Failure(found.status_code),
              calls |-> <<margins_call>> \o found.calls,
              locals |-> [funds_locals EXCEPT
                             !.max_investment5 = max_investment5]]
        ELSE IF penny_stocks = <<>>
        THEN [response |-> Failure(404),
              calls |-> <<margins_call>> \o found.calls,
              locals |-> run_locals]
        ELSE IF placed.orders = <<>>
        THEN [response |-> Failure(400),
              calls |-> <<margins_call>> \o found.calls \o placed.calls,
              locals |-> run_locals]
        ELSE [response |-> Response(200, 0, placed.orders, None),
              calls |-> <<margins_call>> \o found.calls \o placed.calls,
              locals |-> run_locals]

-----------------------------------------------------------------------------
(* The state machine *)

Init ==
    /\ session_storage = EmptyStore
    /\ kite_access_token = None
    /\ \E n \in 0..MaxInstruments :
         \E kinds \in [1..n -> InstrumentKinds] :
            /\ nse_instruments = [i \in 1..n |-> Instrument(i, kinds[i])]
            /\ nse_historical = [i \in 1..n |-> kinds[i].historical]
    /\ request = Idle
    /\ response = NoResponse
    /\ gateway_calls = <<>>
    /\ locals = NoLocals

\* "if not request_token"
Missing(request_token) == request_token = None \/ request_token = ""

\* Variant of StoreToken: an existing entry is kept (setdefault).
KeepFirstToken(store, access_token) ==
    IF KITE_ID \in DOMAIN store THEN store
    ELSE [k \in {KITE_ID} |-> access_token]

\* session_storage[KITE_ID] = access_token
StoreToken(store, access_token) ==
    [k \in DOMAIN store \cup {KITE_ID} |->
        IF k = KITE_ID THEN access_token ELSE store[k]]

\* Variant of NotAuthenticated: the store is probed under another key.
NotAuthenticatedWrongKey(store) == "access_token" \notin DOMAIN store

\* "if KITE_ID not in session_storage"
NotAuthenticated(store) == KITE_ID \notin DOMAIN store

\* GET /kite-redirect
KiteRedirect ==
    /\ request.endpoint = "idle"
    /\ \E request_token \in RequestTokens :
         /\ request' = [Idle EXCEPT !.endpoint = "kite_redirect",
                                    !.request_token = request_token]
         /\ locals' = NoLocals
         /\ IF Missing(request_token)
            THEN /\ response' = Response(400, 400, <<>>, None)
                 /\ gateway_calls' = <<>>
                 /\ UNCHANGED <<session_storage, kite_access_token>>
            ELSE \E data \in SessionOutcomes :
                   /\ gateway_calls' = <<SessionCall(data)>>
                   /\ IF data.ok /\ data.has_token
                      THEN /\ session_storage' =
                                StoreToken(session_storage, data.access_token)
                           /\ kite_access_token' = data.access_token
                           /\ response' =
                                Response(200, 0, <<>>, data.access_token)
                      ELSE /\ response' = Response(500, 0, <<>>, None)
                           /\ UNCHANGED <<session_storage, kite_access_token>>
    /\ UNCHANGED <<nse_instruments, nse_historical>>

\* GET /api/profile
GetProfile ==
    /\ request.endpoint = "idle"
    /\ request' = [Idle EXCEPT !.endpoint = "get_profile"]
    /\ locals' = NoLocals
    /\ IF NotAuthenticated(session_storage)
       THEN /\ response' = Response(401, 401, <<>>, None)
            /\ gateway_calls' = <<>>
            /\ UNCHANGED kite_access_token
       ELSE \E ok \in BOOLEAN :
              /\ kite_access_token' = session_storage[KITE_ID]
              /\ gateway_calls' = <<Call("profile", 0, ok, 0)>>
              /\ response' = Response(IF ok THEN 200 ELSE 500, 0, <<>>, None)
    /\ UNCHANGED <<session_storage, nse_instruments, nse_historical>>

OrderQuantities == {1, 5}

\* POST /api/place-order
PlaceOrder ==
    /\ request.endpoint = "idle"
    /\ request' = [Idle EXCEPT !.endpoint = "place_order"]
    /\ locals' = NoLocals
    /\ IF NotAuthenticated(session_storage)
       THEN /\ response' = Response(401, 401, <<>>, None)
            /\ gateway_calls' = <<>>
            /\ UNCHANGED kite_access_token
       ELSE \E ok \in BOOLEAN, quantity \in OrderQuantities :
              /\ kite_access_token' = session_storage[KITE_ID]
              /\ gateway_calls' = <<Call("place_order", 1, ok, quantity)>>
              /\ response' = Response(IF ok THEN 200 ELSE 500, 0, <<>>, None)
    /\ UNCHANGED <<session_storage, nse_instruments, nse_historical>>

\* POST /api/ai-place-orders
AiPlaceOrders ==
    /\ request.endpoint = "idle"
    /\ \E config \in Configs :
         /\ request' = [Idle EXCEPT !.endpoint = "ai_place_orders",
                                    !.config = config]
         /\ IF NotAuthenticated(session_storage)
            THEN /\ response' = Response(401, 401, <<>>, None)
                 /\ gateway_calls' = <<>>
                 /\ locals' = NoLocals
                 /\ UNCHANGED kite_access_token
            ELSE \E margins \in MarginsOutcomes, instruments_ok \in BOOLEAN,
                    place_fails \in SUBSET (1..Len(nse_instruments)) :
                   LET run == AiRun(config, margins, instruments_ok,
                                    place_fails)
                   IN  /\ kite_access_token' = session_storage[KITE_ID]
                       /\ response' = run.response
                       /\ gateway_calls' = run.calls
                       /\ locals' = run.locals
    /\ UNCHANGED <<session_storage, nse_instruments, nse_historical>>

\* The response is sent and the request's locals are discarded.
Deliver ==
    /\ request.endpoint # "idle"
    /\ request' = Idle
    /\ response' = NoResponse
    /\ gateway_calls' = <<>>
    /\ locals' = NoLocals
    /\ UNCHANGED <<session_storage, kite_access_token, nse_instruments,
                   nse_historical>>

Next ==
    \/ KiteRedirect
    \/ GetProfile
    \/ PlaceOrder
    \/ AiPlaceOrders
    \/ Deliver

Spec == Init /\ [][Next]_vars

-----------------------------------------------------------------------------
(* Vocabulary of the properties *)

IsAi == request.endpoint = "ai_place_orders"
IsRedirect == request.endpoint = "kite_redirect"
Guarded == {"get_profile", "place_order", "ai_place_orders"}
Stored == KITE_ID \in DOMAIN session_storage

CallsOf(op) == SelectSeq(gateway_calls, LAMBDA c : c.op = op)
Made(op) == CallsOf(op) # <<>>
Succeeded(op) == \E i \in 1..Len(gateway_calls) :
                    gateway_calls[i].op = op /\ gateway_calls[i].ok
Failed(op) == \E i \in 1..Len(gateway_calls) :
                 gateway_calls[i].op = op /\ ~gateway_calls[i].ok

Args(calls) == [i \in 1..Len(calls) |-> calls[i].arg]
Symbols(stocks) == [i \in 1..Len(stocks) |-> stocks[i].tradingsymbol]
Range(s) == {s[i] : i \in 1..Len(s)}

\* The instrument of the dump and the candidate that carry a trading symbol.
InstrumentOf(symbol) ==
    CHOOSE x \in Range(nse_instruments) : x.tradingsymbol = symbol
StockOf(symbol) ==
    CHOOSE x \in Range(locals.penny_stocks) : x.tradingsymbol = symbol

\* floor(a / b) for b # 0.
FloorDiv(a, b) == IF b > 0 THEN a \div b ELSE (-a) \div (-b)

\* The ai_place_orders run got as far as the screening / the order loop.
ScreeningRan == IsAi /\ Succeeded("instruments")
InLoop == IsAi /\ locals.penny_stocks # <<>>

\* floor(per-candidate allocation / last_price) of a candidate, where the
\* allocation is max_investment / min(max_stocks, len(candidates)).
ShareCount(stock) ==
    FloorDiv(locals.max_investment5,
             5 * Min(request.config.max_stocks, Len(locals.penny_stocks))
               * stock.last_price)

\* Five times the money committed by the place_order calls of the run.
RECURSIVE Cost5(_)
Cost5(calls) ==
    IF calls = <<>> THEN 0
    ELSE 5 * calls[1].quantity * StockOf(calls[1].arg).last_price
           + Cost5(Tail(calls))

-----------------------------------------------------------------------------
(* C1 *)

\* C1: POST /api/ai-place-orders answers 401 without a stored credential,
\* 400 when the available funds are below 1000, 404 when the screening
\* returns no candidate, 400 when there are candidates but no order was
\* placed, and 500 only when a gateway call (margins, instruments) failed.
C1_StatusContract ==
    IsAi =>
      /\ ~Stored => response.status_code = 401
      /\ (Succeeded("margins") /\ locals.available_funds < MinFunds)
            => response.status_code = 400
      /\ (ScreeningRan /\ locals.penny_stocks = <<>>)
            => response.status_code = 404
      /\ (InLoop /\ ~Succeeded("place_order"))
            => response.status_code = 400
      /\ response.status_code = 500
            => (Failed("margins") \/ Failed("instruments"))

-----------------------------------------------------------------------------
(* C2 *)

\* C2: when the funds lookup of ai_place_orders returns less than 1000, the
\* request ends in a failure response and the funds lookup is the only
\* gateway call of the request.
C2_NoCallAfterLowFunds ==
    (IsAi /\ Succeeded("margins") /\ locals.available_funds < MinFunds)
      => /\ response.status_code >= 400
         /\ Len(gateway_calls) = 1
         /\ gateway_calls[1].op = "margins"

\* Low funds were reported while the gateway held an instrument that the
\* screening would have fetched.
C2_Witness ==
    /\ IsAi /\ Succeeded("margins")
    /\ locals.available_funds = 500
    /\ \E i \in 1..Len(nse_instruments) :
          ~SkippedBeforeFetch(nse_instruments[i], request.config)

-----------------------------------------------------------------------------
(* C3 *)

\* C3: a request to /api/profile, /api/place-order or /api/ai-place-orders
\* made while no credential is stored is answered 401 without any gateway
\* call, and one made while a credential is stored is never answered 401;
\* the store is empty until a /kite-redirect request answered 200 fills
\* it, every such request fills it, and once filled it stays filled.
C3_AuthGate ==
    [][ /\ (request.endpoint = "idle" /\ request'.endpoint \in Guarded)
            => IF Stored
               THEN response'.status_code # 401
               ELSE response'.status_code = 401 /\ gateway_calls' = <<>>
        /\ Stored => Stored'
        /\ (~Stored /\ Stored')
            => (IsRedirect' /\ response'.status_code = 200
                            /\ Succeeded("generate_session")')
        /\ (request.endpoint = "idle" /\ IsRedirect'
                                      /\ response'.status_code = 200)
            => Stored'
      ]_vars

\* A guarded endpoint refused a request made before any login.
C3_Witness ==
    /\ request.endpoint \in Guarded
    /\ ~Stored
    /\ response.status_code = 401
    /\ gateway_calls = <<>>

-----------------------------------------------------------------------------
(* C4 *)

ExchangeOK ==
    /\ Made("generate_session")
    /\ gateway_calls[1].ok
    /\ gateway_calls[1].has_token

\* C4: /kite-redirect answers 400 without a gateway call when request_token
\* is missing or empty and 500 when the exchange fails, leaving the session
\* store as it was; the store changes only in a successful exchange, after
\* which it holds the returned access token under KITE_ID and nothing else.
C4_RedirectStore ==
    [][ /\ (request.endpoint = "idle" /\ IsRedirect')
            => /\ Missing(request'.request_token)
                    => /\ response'.status_code = 400
                       /\ gateway_calls' = <<>>
                       /\ session_storage' = session_storage
               /\ (~Missing(request'.request_token) /\ ~ExchangeOK')
                    => /\ response'.status_code = 500
                       /\ session_storage' = session_storage
               /\ ExchangeOK'
                    => /\ response'.status_code = 200
                       /\ DOMAIN session_storage' = {KITE_ID}
                       /\ session_storage'[KITE_ID]
                            = gateway_calls'[1].access_token
        /\ session_storage' # session_storage
            => (request.endpoint = "idle" /\ IsRedirect' /\ ExchangeOK')
      ]_vars

\* A failed exchange was answered 500 while an earlier credential was stored.
C4_Witness ==
    /\ IsRedirect
    /\ response.status_code = 500
    /\ Made("generate_session")
    /\ Stored

-----------------------------------------------------------------------------
(* C5 *)

\* growth_percent as the claim defines it, from the gateway's series.
ClaimedGrowth(candles) ==
    IF candles[1].close = 0 THEN Whole(0)
    ELSE [num |-> (candles[Len(candles)].close - candles[1].close) * 100,
          den |-> candles[1].close]

\* C5: every candidate returned by find_penny_stocks is an NSE-EQ
\* instrument with a positive last price at or below the threshold, a
\* series of at least 5 points, growth_percent >= min_growth_percent and an
\* average volume above the minimum.
C5_CandidatesPassFilters ==
    ScreeningRan =>
      \A k \in 1..Len(locals.penny_stocks) :
        LET stock == locals.penny_stocks[k]
            instrument == InstrumentOf(stock.tradingsymbol)
            fetch == nse_historical[instrument.instrument_token]
        IN  /\ instrument.segment = "NSE-EQ"
            /\ stock.last_price = instrument.last_price
            /\ stock.last_price > 0
            /\ stock.last_price <= request.config.penny_stock_threshold
            /\ fetch.ok
            /\ Len(fetch.candles) >= MinDataPoints
            /\ stock.growth_percent = ClaimedGrowth(fetch.candles)
            /\ FracGE(stock.growth_percent,
                      Whole(request.config.min_growth_percent))
            /\ FracGT(stock.avg_volume, Whole(MinAvgVolume))

-----------------------------------------------------------------------------
(* C6 *)

Descending(stocks) ==
    \A i, j \in 1..Len(stocks) :
        i < j => FracGE(stocks[i].growth_percent, stocks[j].growth_percent)

LeftOutBelowKept ==
    \A i \in 1..Len(locals.passed), j \in 1..Len(locals.penny_stocks) :
        locals.passed[i].tradingsymbol \notin Range(Symbols(locals.penny_stocks))
          => FracGE(locals.penny_stocks[j].growth_percent,
                    locals.passed[i].growth_percent)

\* C6: the list returned by find_penny_stocks is in descending order of
\* growth_percent, it is no longer than min(max_stocks, number of
\* instruments that passed the filters) for every max_stocks the
\* configuration accepts, and nothing left out outgrows anything kept.  (No
\* list is shorter than 0, so for a negative max_stocks the bound is read
\* as 0, which the claimed bound implies.)
C6_RankedAndCapped ==
    ScreeningRan =>
      /\ Descending(locals.penny_stocks)
      /\ Len(locals.penny_stocks)
            <= Max(0, Min(request.config.max_stocks, Len(locals.passed)))
      /\ LeftOutBelowKept

-----------------------------------------------------------------------------
(* C7 *)

PlacedFor(symbol) ==
    \E i \in 1..Len(gateway_calls) :
        gateway_calls[i].op = "place_order" /\ gateway_calls[i].arg = symbol

\* C7: a 200 response of ai_place_orders lists at least one order and every
\* listed order has quantity floor(allocation / last_price) >= 1; for a
\* candidate whose share count is 0 no place_order call is made; when no
\* order was placed the response is a failure that lists no order.
C7_OrdersAtLeastOne ==
    IsAi =>
      /\ response.status_code = 200 =>
            /\ response.orders # <<>>
            /\ \A i \in 1..Len(response.orders) :
                 LET order == response.orders[i]
                     stock == StockOf(order.tradingsymbol)
                 IN  /\ order.tradingsymbol \in Range(Symbols(locals.penny_stocks))
                     /\ stock.last_price # 0
                     /\ order.quantity >= 1
                     /\ order.quantity = ShareCount(stock)
      /\ \A k \in 1..Len(locals.penny_stocks) :
            LET stock == locals.penny_stocks[k]
            IN  (stock.last_price # 0 /\ ShareCount(stock) = 0)
                  => /\ ~PlacedFor(stock.tradingsymbol)
                     /\ stock.tradingsymbol
                            \notin Range(Symbols(response.orders))
      /\ (InLoop /\ ~Succeeded("place_order"))
            => (response.status_code >= 400 /\ response.orders = <<>>)

\* A 200 response that lists an order while another candidate, too
\* expensive for one share, was left out.
C7_Witness ==
    /\ IsAi
    /\ response.status_code = 200
    /\ \E k \in 1..Len(locals.penny_stocks) :
          /\ locals.penny_stocks[k].last_price # 0
          /\ ShareCount(locals.penny_stocks[k]) = 0

-----------------------------------------------------------------------------
(* C8 *)

Scanned == SliceTo(nse_instruments, ScanLimit)

Fetchable(instrument) == ~SkippedBeforeFetch(instrument, request.config)

Passes(instrument) ==
    /\ Fetchable(instrument)
    /\ nse_historical[instrument.instrument_token].ok
    /\ Screened(instrument,
                nse_historical[instrument.instrument_token].candles,
                request.config) # <<>>

\* C8: when the instrument-list fetch fails the request is answered 500
\* with no historical-data fetch; otherwise one historical-data fetch is
\* made for every scanned instrument that passes the segment and price
\* filter, in scan order, whether or not earlier fetches failed, and the
\* instruments that pass the screening are exactly those among them whose
\* own fetch succeeded and whose series passes the filters.
C8_FetchFailureSkipsOne ==
    IsAi =>
      /\ Failed("instruments") =>
            /\ response.status_code = 500
            /\ ~Made("historical_data")
            /\ ~Made("place_order")
      /\ ScreeningRan =>
            /\ Args(CallsOf("historical_data"))
                 = Symbols(SelectSeq(Scanned, Fetchable))
            /\ Symbols(locals.passed) = Symbols(SelectSeq(Scanned, Passes))

\* A fetch failed, a later fetch succeeded and its instrument passed.
C8_Witness ==
    /\ ScreeningRan
    /\ \E i, j \in 1..Len(gateway_calls) :
          /\ i < j
          /\ gateway_calls[i].op = "historical_data" /\ ~gateway_calls[i].ok
          /\ gateway_calls[j].op = "historical_data" /\ gateway_calls[j].ok
          /\ gateway_calls[j].arg \in Range(Symbols(locals.penny_stocks))

-----------------------------------------------------------------------------
(* C9 *)

Affordable(stock) == stock.last_price # 0 /\ ShareCount(stock) >= 1

OkCall(call) == call.ok

\* C9: place_order is called exactly once for every candidate with a share
\* count >= 1, in ranked order, whether or not earlier calls failed; when
\* a call succeeded the response is 200 and lists exactly the candidates
\* whose call succeeded, in ranked order; otherwise it is a failure.
C9_SequentialOrders ==
    InLoop =>
      /\ Args(CallsOf("place_order"))
            = Symbols(SelectSeq(locals.penny_stocks, Affordable))
      /\ IF Succeeded("place_order")
         THEN /\ response.status_code = 200
              /\ Symbols(response.orders)
                    = Args(SelectSeq(CallsOf("place_order"), OkCall))
         ELSE /\ response.status_code >= 400
              /\ response.orders = <<>>

\* An order was rejected, a later one was accepted, the response is 200.
C9_Witness ==
    /\ InLoop
    /\ response.status_code = 200
    /\ \E i, j \in 1..Len(gateway_calls) :
          /\ i < j
          /\ gateway_calls[i].op = "place_order" /\ ~gateway_calls[i].ok
          /\ gateway_calls[j].op = "place_order" /\ gateway_calls[j].ok

-----------------------------------------------------------------------------
(* C10 *)

\* C10: the place_order calls of one run commit in total at most
\* min(max_investment, 0.8 * available_funds), hence at most 80% of the
\* available funds, and each of them at most that budget divided by
\* min(max_stocks, number of candidates).
C10_WithinBudget ==
    (InLoop /\ Made("place_order")) =>
      LET calls == CallsOf("place_order")
          shares == Min(request.config.max_stocks, Len(locals.penny_stocks))
      IN  /\ Cost5(calls) <= locals.max_investment5
          /\ Cost5(calls) <= 4 * locals.available_funds
          /\ \A i \in 1..Len(calls) :
                IF shares > 0
                THEN Cost5(<<calls[i]>>) * shares <= locals.max_investment5
                ELSE Cost5(<<calls[i]>>) * shares >= locals.max_investment5

====
